---------------------------- MODULE Spec2Model ----------------------------
(***************************************************************************)
(* Two programs of the repository, each as a state machine over its        *)
(* module's globals: Snake Xenia (src/snake_game.py), whose part comes     *)
(* first, and Tic Tac Toe (src/tictactoe.py), specification SpecTTT.  The  *)
(* programs do not interact: each one's steps leave the other's variables  *)
(* as they are.                                                            *)
(*                                                                         *)
(* Snake Xenia: the main loop's tick and the key handlers.                 *)
(*                                                                         *)
(* Coordinates are the turtle coordinates of the source (pixels); every    *)
(* value the program produces is an integer, so the float arithmetic of    *)
(* turtle is exact.  delay is kept in milliseconds (0.12 s = 120).         *)
(* Key handlers run inside screen.update() (tracer(0): no other turtle     *)
(* call processes Tk events), so a handler and a tick never interleave.    *)
(* quit_game ends the process: the behaviour stutters from then on.        *)
(*                                                                         *)
(* Four specifications run the same actions over different inputs:         *)
(*   Spec      every handler, power-up spawn rolls both ways, short snake; *)
(*   SpecFood  no pause, the spawn roll always fails (no power-up), a      *)
(*             snake long enough to level up and to hit itself;            *)
(*   SpecPlay  one game (no pause, no restart key) with power-ups;         *)
(*   SpecLevel the first game, no pause, no restart key, a power-up only   *)
(*             as the pickup that can complete a level.                    *)
(***************************************************************************)
EXTENDS Integers, Sequences, FiniteSets

VARIABLES head, snake_segments, direction, paused, score, high_score,
          foods_eaten_in_level, delay, food, xenia,
          last, ev, maxScore

vars == <<head, snake_segments, direction, paused, score, high_score,
          foods_eaten_in_level, delay, food, xenia, last, ev, maxScore>>

\* Tic Tac Toe (src/tictactoe.py): its globals, the number of playComputer
\* timers pending, and what the last event was (history)
VARIABLES game_mode, boardStatus, current_player, gameOver, draw, timers, lastT

tvars == <<game_mode, boardStatus, current_player, gameOver, draw, timers, lastT>>

---------------------------------------------------------------------------
(* Bounds of the model *)

\* half the board's side, in grid units (the source's board is 15)
HalfCells == 3
\* a moving tick is explored only while the snake has fewer segments than
\* this: in the whole program, when no power-up spawns, when nobody restarts
MaxSegs == 1
MaxSegsFood == 5
MaxSegsPlay == 3
\* Tic Tac Toe: cells on a side of the board (the source's board has 5), and
\* the most playComputer timers pending at once
Side == 3
MaxTimers == 1

(* Configuration, src/snake_game.py lines 25-47 *)
GRID_SIZE == 20
WIDTH == 2 * HalfCells * GRID_SIZE
HEIGHT == 2 * HalfCells * GRID_SIZE
INITIAL_SPEED == 120
SPEED_DECREMENT == 5
SPEED_MIN == 30
FOOD_SCORE == 10
XENIA_SCORE == 40
LEVEL_UP_FOOD_COUNT == 5
WALLS_ENABLED == TRUE
MAX_FOOD_TRIES == 50

\* literals of the source
SpawnMargin == 40
WallPadding == 10
SelfSlack == 2
OffScreen == 1000

Directions == {"up", "down", "left", "right"}
Origin == <<0, 0>>

Abs(n) == IF n < 0 THEN -n ELSE n
Max2(a, b) == IF a >= b THEN a ELSE b

\* turtle.distance(other) < r, for r >= 0, on integer coordinates
DistanceLess(p, q, r) ==
    (p[1] - q[1]) * (p[1] - q[1]) + (p[2] - q[2]) * (p[2] - q[2]) < r * r

\* random.randrange(start, stop, GRID_SIZE)
RandRange(start, stop) ==
    { start + k * GRID_SIZE : k \in { j \in 0..(2 * HalfCells + 1) : start + j * GRID_SIZE < stop } }

\* the other program, src/tictactoe.py, is not running (lines 17-20, 45)
NotStarted ==
    /\ game_mode = "None"
    /\ boardStatus = [i \in 0..(Side * Side - 1) |-> ""]
    /\ current_player = "X"
    /\ gameOver = FALSE
    /\ draw = FALSE
    /\ timers = 0
    /\ lastT = [op |-> "init", box |-> -1]

---------------------------------------------------------------------------
(* The globals as one record, so that a function of the source is an       *)
(* operator from globals to globals.                                       *)

G == [head |-> head, snake_segments |-> snake_segments, direction |-> direction,
      paused |-> paused, score |-> score, high_score |-> high_score,
      foods_eaten_in_level |-> foods_eaten_in_level, delay |-> delay,
      food |-> food, xenia |-> xenia]

\* xenia = None
NoXenia == [exists |-> FALSE, pos |-> Origin, visible |-> FALSE]

hide_xenia(x) == IF x.exists THEN [x EXCEPT !.visible = FALSE] ELSE x

reset_game_state_all(g) ==
    [g EXCEPT !.snake_segments = <<>>,
              !.direction = "stop",
              !.score = 0,
              !.high_score = 0,
              !.foods_eaten_in_level = 0,
              !.delay = INITIAL_SPEED,
              !.xenia = hide_xenia(g.xenia),
              !.head = Origin]

reset_game_state_keep_delay(g) ==
    [g EXCEPT !.snake_segments = <<>>,
              !.direction = "stop",
              !.score = 0,
              !.foods_eaten_in_level = 0,
              !.xenia = hide_xenia(g.xenia),
              !.head = Origin]

reset_game_state(g) ==
    [g EXCEPT !.snake_segments = <<>>,
              !.direction = "stop",
              !.score = 0,
              !.foods_eaten_in_level = 0,
              !.delay = INITIAL_SPEED,
              !.xenia = hide_xenia(g.xenia),
              !.head = Origin]

\* the test of lines 182 and 186
Overlaps(p, x, y) == Abs(p[1] - x) < GRID_SIZE /\ Abs(p[2] - y) < GRID_SIZE

Candidates ==
    RandRange((-WIDTH) \div 2 + SpawnMargin, WIDTH \div 2 - SpawnMargin)
      \X RandRange((-HEIGHT) \div 2 + SpawnMargin, HEIGHT \div 2 - SpawnMargin)

CandidateCollides_head_only(h, segs, c) == Overlaps(h, c[1], c[2])

CandidateCollides(h, segs, c) ==
    \/ Overlaps(h, c[1], c[2])
    \/ \E i \in 1..Len(segs) : Overlaps(segs[i], c[1], c[2])

\* Whether the loop of place_turtle_at_random, entered with `tries` tries
\* made, can run out of tries: every remaining draw must hit a rejected
\* candidate, so one must exist (`blocked`).
RECURSIVE TriesCanRunOut(_, _)
TriesCanRunOut(blocked, tries) ==
    IF tries < MAX_FOOD_TRIES
      THEN blocked /\ TriesCanRunOut(blocked, tries + 1)
      ELSE TRUE

place_turtle_at_random_no_fallback(h, segs) ==
    { [pos |-> c, fallback |-> FALSE] : c \in { c \in Candidates : ~CandidateCollides(h, segs, c) } }

\* The placements place_turtle_at_random can end with: the first drawn
\* candidate that overlaps neither head nor segment, or, once every one of
\* the MAX_FOOD_TRIES draws was rejected, the fallback (0, 0).
place_turtle_at_random(h, segs) ==
    LET free == { c \in Candidates : ~CandidateCollides(h, segs, c) }
        blocked == \E c \in Candidates : CandidateCollides(h, segs, c)
    IN  (IF 0 < MAX_FOOD_TRIES
           THEN { [pos |-> c, fallback |-> FALSE] : c \in free }
           ELSE {})
        \cup (IF TriesCanRunOut(blocked, 0)
                THEN { [pos |-> Origin, fallback |-> TRUE] }
                ELSE {})

\* place_food, given the placement place_turtle_at_random ended with
place_food(g, o) == [g EXCEPT !.food = [pos |-> o.pos, visible |-> TRUE]]

\* place_xenia, given the outcome of random.random() < 0.25 and the placement
place_xenia(g, spawn, o) ==
    IF spawn
      THEN [g EXCEPT !.xenia = [exists |-> TRUE, pos |-> o.pos, visible |-> TRUE]]
      ELSE [g EXCEPT !.xenia = hide_xenia(g.xenia)]

go_up(d) == IF d # "down" THEN "up" ELSE d
go_down_always(d) == "down"
go_down(d) == IF d # "up" THEN "down" ELSE d
go_left(d) == IF d # "right" THEN "left" ELSE d
go_right(d) == IF d # "left" THEN "right" ELSE d

toggle_pause(p) == ~p

restart_game(g, o) ==
    LET g1 == place_food(reset_game_state(g), o)
    IN  [g1 EXCEPT !.xenia = hide_xenia(g1.xenia)]

collides_with_wall_no_padding(x, y) ==
    IF ~WALLS_ENABLED
      THEN FALSE
      ELSE LET half_w == WIDTH \div 2
               half_h == HEIGHT \div 2
           IN  \/ x > half_w
               \/ x < -half_w
               \/ y > half_h
               \/ y < -half_h

collides_with_wall_x_only(x, y) ==
    IF ~WALLS_ENABLED
      THEN FALSE
      ELSE LET half_w == WIDTH \div 2
           IN  \/ x > half_w - WallPadding
               \/ x < -half_w + WallPadding

collides_with_wall(x, y) ==
    IF ~WALLS_ENABLED
      THEN FALSE
      ELSE LET half_w == WIDTH \div 2
               half_h == HEIGHT \div 2
           IN  \/ x > half_w - WallPadding
               \/ x < -half_w + WallPadding
               \/ y > half_h - WallPadding
               \/ y < -half_h + WallPadding

collides_with_self_zero(h, segs) ==
    \E i \in 1..Len(segs) : DistanceLess(h, segs[i], 0)

collides_with_self_wide(h, segs) ==
    \E i \in 1..Len(segs) : DistanceLess(h, segs[i], GRID_SIZE + SelfSlack)

collides_with_self(h, segs) ==
    \E i \in 1..Len(segs) : DistanceLess(h, segs[i], GRID_SIZE - SelfSlack)

shift_segments_front_to_back(h, segs) ==
    [i \in 1..Len(segs) |-> IF i = 1 THEN h ELSE segs[1]]

\* the body shift of move_snake: from the last segment to the first, each
\* takes its predecessor's place, the first takes the head's
shift_segments(h, segs) ==
    [i \in 1..Len(segs) |-> IF i = 1 THEN h ELSE segs[i - 1]]

move_head(h, d) ==
    CASE d = "up" -> <<h[1], h[2] + GRID_SIZE>>
      [] d = "down" -> <<h[1], h[2] - GRID_SIZE>>
      [] d = "left" -> <<h[1] - GRID_SIZE, h[2]>>
      [] d = "right" -> <<h[1] + GRID_SIZE, h[2]>>
      [] OTHER -> h

move_snake(g) ==
    [g EXCEPT !.snake_segments = shift_segments(g.head, g.snake_segments),
              !.head = move_head(g.head, g.direction)]

spawn_segment_at_tail(segs) ==
    Append(segs, IF segs = <<>> THEN Origin ELSE segs[Len(segs)])

spawn_segment(segs) == Append(segs, <<OffScreen, OffScreen>>)

set_delay(g, new_delay) == [g EXCEPT !.delay = new_delay]

increase_speed_on_level_progress_slower(g) ==
    IF g.foods_eaten_in_level >= LEVEL_UP_FOOD_COUNT
      THEN set_delay([g EXCEPT !.foods_eaten_in_level = 0],
                     Max2(SPEED_MIN, g.delay + SPEED_DECREMENT))
      ELSE g

increase_speed_on_level_progress_keep_counter(g) ==
    IF g.foods_eaten_in_level >= LEVEL_UP_FOOD_COUNT
      THEN set_delay(g, Max2(SPEED_MIN, g.delay - SPEED_DECREMENT))
      ELSE g

increase_speed_on_level_progress(g) ==
    IF g.foods_eaten_in_level >= LEVEL_UP_FOOD_COUNT
      THEN set_delay([g EXCEPT !.foods_eaten_in_level = 0],
                     Max2(SPEED_MIN, g.delay - SPEED_DECREMENT))
      ELSE g

\* apply_xenia_effect returns XENIA_SCORE; this is its effect on the globals
apply_xenia_effect(g) ==
    increase_speed_on_level_progress(
        [g EXCEPT !.foods_eaten_in_level = g.foods_eaten_in_level + 1])

update_high_score(g) ==
    IF g.score > g.high_score THEN [g EXCEPT !.high_score = g.score] ELSE g

tick_guard_unpaused(p, d) == ~p

tick_guard_ignores_pause(p, d) == d # "stop"

\* line 343: whether this iteration of the main loop moves the snake
tick_guard(p, d) == ~p /\ d # "stop"

\* lines 349-360 and 364-373: the body of either game-over branch
game_over(g) ==
    reset_game_state([g EXCEPT !.head = Origin,
                               !.direction = "stop",
                               !.snake_segments = <<>>])

\* which branch of lines 347-373 runs after move_snake
fatal_kind(g) ==
    IF collides_with_wall(g.head[1], g.head[2]) THEN "wall"
    ELSE IF collides_with_self(g.head, g.snake_segments) THEN "self"
    ELSE "none"

collision_step(g) == IF fatal_kind(g) # "none" THEN game_over(g) ELSE g

\* line 376
food_hit(g) == DistanceLess(g.head, g.food.pos, GRID_SIZE)

food_eaten_no_counter(g) ==
    [g EXCEPT !.food = [g.food EXCEPT !.visible = FALSE],
              !.score = g.score + FOOD_SCORE,
              !.snake_segments = spawn_segment(g.snake_segments)]

\* lines 378-382, up to place_food
food_eaten(g) ==
    [g EXCEPT !.food = [g.food EXCEPT !.visible = FALSE],
              !.score = g.score + FOOD_SCORE,
              !.foods_eaten_in_level = g.foods_eaten_in_level + 1,
              !.snake_segments = spawn_segment(g.snake_segments)]

\* lines 384-391, given the two placements and the spawn roll
food_respawn(g, fo, spawn, xo) ==
    update_high_score(
        increase_speed_on_level_progress(
            place_xenia(place_food(g, fo), spawn, xo)))

\* line 394
xenia_hit(g) ==
    g.xenia.exists /\ g.xenia.visible /\ DistanceLess(g.head, g.xenia.pos, GRID_SIZE)

xenia_eaten_one_segment(g) ==
    LET g1 == [g EXCEPT !.xenia = hide_xenia(g.xenia)]
        g2 == apply_xenia_effect(g1)
        g3 == [g2 EXCEPT !.score = g2.score + XENIA_SCORE]
        g4 == [g3 EXCEPT !.snake_segments = spawn_segment(g3.snake_segments)]
    IN  update_high_score(g4)

\* lines 395-404
xenia_eaten(g) ==
    LET g1 == [g EXCEPT !.xenia = hide_xenia(g.xenia)]
        g2 == apply_xenia_effect(g1)
        g3 == [g2 EXCEPT !.score = g2.score + XENIA_SCORE]
        g4 == [g3 EXCEPT !.snake_segments = spawn_segment(spawn_segment(g3.snake_segments))]
    IN  update_high_score(g4)

xenia_step(g) == IF xenia_hit(g) THEN xenia_eaten(g) ELSE g

---------------------------------------------------------------------------
(* History read by the properties only.  `last` names the step just taken: *)
(* a key handler, "tick" for a loop iteration that moved the snake, "idle" *)
(* for one whose guard (line 343) was false.  `ev` says what the most      *)
(* recent moving tick did, or that the game was just set up by the start   *)
(* of the process or by restart_game (ontail: the head landed on the cell  *)
(* the last segment held when the tick began); `maxScore` is the largest   *)
(* value score has held.                                                   *)

NoEvent == [fatal |-> "none", food |-> FALSE, xenia |-> FALSE,
            placed |-> FALSE, fallback |-> FALSE, ontail |-> FALSE]

\* the globals become `new` (bound once, by the quantifier) and the history
\* is brought up to date
Commit(new, e) ==
    \E g \in {new} :
        /\ head' = g.head
        /\ snake_segments' = g.snake_segments
        /\ direction' = g.direction
        /\ paused' = g.paused
        /\ score' = g.score
        /\ high_score' = g.high_score
        /\ foods_eaten_in_level' = g.foods_eaten_in_level
        /\ delay' = g.delay
        /\ food' = g.food
        /\ xenia' = g.xenia
        /\ ev' = e
        /\ maxScore' = Max2(maxScore, g.score)
        /\ UNCHANGED tvars

\* lines 313-337; `rolls` are the outcomes of random.random() < 0.25 explored
InitOf(rolls) ==
    \E fo \in place_turtle_at_random(Origin, <<>>) :
    \E spawn \in rolls :
    \E xo \in (IF spawn THEN place_turtle_at_random(Origin, <<>>) ELSE {fo}) :
        /\ head = Origin
        /\ snake_segments = <<>>
        /\ direction = "stop"
        /\ paused = FALSE
        /\ score = 0
        /\ high_score = 0
        /\ foods_eaten_in_level = 0
        /\ delay = INITIAL_SPEED
        /\ food = [pos |-> fo.pos, visible |-> TRUE]
        /\ xenia = IF spawn THEN [exists |-> TRUE, pos |-> xo.pos, visible |-> TRUE]
                   ELSE NoXenia
        /\ last = "init"
        /\ ev = [NoEvent EXCEPT !.placed = TRUE, !.fallback = fo.fallback]
        /\ maxScore = 0
        /\ NotStarted

KeyUp ==
    /\ last' = "go_up"
    /\ Commit([G EXCEPT !.direction = go_up(direction)], ev)
KeyDown ==
    /\ last' = "go_down"
    /\ Commit([G EXCEPT !.direction = go_down(direction)], ev)
KeyLeft ==
    /\ last' = "go_left"
    /\ Commit([G EXCEPT !.direction = go_left(direction)], ev)
KeyRight ==
    /\ last' = "go_right"
    /\ Commit([G EXCEPT !.direction = go_right(direction)], ev)

KeyPause ==
    /\ last' = "toggle_pause"
    /\ Commit([G EXCEPT !.paused = toggle_pause(paused)], ev)

KeyRestart ==
    \E o \in place_turtle_at_random(Origin, <<>>) :
        /\ last' = "restart_game"
        /\ Commit(restart_game(G, o),
                  [NoEvent EXCEPT !.placed = TRUE, !.fallback = o.fallback])

\* one iteration of the main loop whose guard (line 343) is false
IdleTick ==
    /\ ~tick_guard(paused, direction)
    /\ last' = "idle"
    /\ Commit(G, ev)

\* one iteration of the main loop, lines 344-404, explored while the snake
\* has fewer than `bound` segments
TickOf(rolls, bound) ==
    /\ tick_guard(paused, direction)
    /\ Len(snake_segments) < bound
    /\ last' = "tick"
    /\ LET g1 == move_snake(G)
           g2 == collision_step(g1)
           e == [NoEvent EXCEPT !.fatal = fatal_kind(g1),
                                !.ontail = /\ snake_segments # <<>>
                                           /\ g1.head = snake_segments[Len(snake_segments)]]
       IN  IF food_hit(g2)
             THEN LET g3 == food_eaten(g2)
                      placements == place_turtle_at_random(g3.head, g3.snake_segments)
                  IN  \E fo \in placements :
                      \E spawn \in rolls :
                      \E xo \in (IF spawn THEN placements ELSE {fo}) :
                          LET g4 == food_respawn(g3, fo, spawn, xo)
                          IN  Commit(xenia_step(g4),
                                     [e EXCEPT !.food = TRUE, !.placed = TRUE,
                                               !.fallback = fo.fallback,
                                               !.xenia = xenia_hit(g4)])
             ELSE Commit(xenia_step(g2), [e EXCEPT !.xenia = xenia_hit(g2)])

(* The whole program: every key, both outcomes of the power-up roll. *)
Init == InitOf(BOOLEAN)

Tick == TickOf(BOOLEAN, MaxSegs)

Next ==
    \/ KeyUp
    \/ KeyDown
    \/ KeyLeft
    \/ KeyRight
    \/ KeyPause
    \/ KeyRestart
    \/ IdleTick
    \/ Tick

Spec == Init /\ [][Next]_vars

(* A player who never pauses, and a power-up roll that never succeeds: the *)
(* snake grows by food alone, far enough for a level-up.                   *)
InitFood == InitOf({FALSE})

TickFood == TickOf({FALSE}, MaxSegsFood)

NextFood ==
    \/ KeyUp
    \/ KeyDown
    \/ KeyLeft
    \/ KeyRight
    \/ KeyRestart
    \/ IdleTick
    \/ TickFood

SpecFood == InitFood /\ [][NextFood]_vars

(* A player who never pauses or restarts: power-ups and a longer snake. *)
TickPlay == TickOf(BOOLEAN, MaxSegsPlay)

NextPlay ==
    \/ KeyUp
    \/ KeyDown
    \/ KeyLeft
    \/ KeyRight
    \/ IdleTick
    \/ TickPlay

SpecPlay == Init /\ [][NextPlay]_vars

(* The first game of a player who never pauses or restarts, with a power-up *)
(* roll that succeeds only after the pickup before the last of a level: the *)
(* power-up can then be the pickup that completes the level.                *)
LateRolls ==
    IF foods_eaten_in_level = LEVEL_UP_FOOD_COUNT - 2 THEN BOOLEAN ELSE {FALSE}

TickLevel ==
    /\ ev.fatal = "none"
    /\ TickOf(LateRolls, MaxSegsFood)

NextLevel ==
    \/ KeyUp
    \/ KeyDown
    \/ KeyLeft
    \/ KeyRight
    \/ IdleTick
    \/ TickLevel

SpecLevel == InitFood /\ [][NextLevel]_vars

---------------------------------------------------------------------------
(* Tic Tac Toe, src/tictactoe.py.  Every handler (a click, a timer firing) *)
(* runs to its end from the Tk main loop, so each is one step.             *)

\* board geometry, lines 12-15
l == 100 * Side
cell == l \div Side
nx == -(l \div 2)
ty == l \div 2

Boxes == 0..(Side * Side - 1)

\* lines 49-51: the top-left corner of box i
boxCoords(i) == <<nx + (i % Side) * cell, ty - (i \div Side) * cell>>

\* the globals as one record
T == [game_mode |-> game_mode, boardStatus |-> boardStatus,
      current_player |-> current_player, gameOver |-> gameOver,
      draw |-> draw, timers |-> timers]

startGame(t, mode) ==
    [t EXCEPT !.game_mode = mode,
              !.boardStatus = [i \in Boxes |-> ""],
              !.current_player = "X",
              !.gameOver = FALSE,
              !.draw = FALSE]

restart(t) == IF t.game_mode # "None" THEN startGame(t, t.game_mode) ELSE t

\* lines 131-141: rows, columns and the two diagonals
Lines ==
    { { r * Side + c : c \in 0..(Side - 1) } : r \in 0..(Side - 1) }
      \cup { { r * Side + c : r \in 0..(Side - 1) } : c \in 0..(Side - 1) }
      \cup { { k * (Side + 1) : k \in 0..(Side - 1) } }
      \cup { { (Side - 1) + k * (Side - 1) : k \in 0..(Side - 1) } }

\* lines 143-146: checkWinner's result
checkWinner(b, p) == \E line \in Lines : \A i \in line : b[i] = p

\* lines 148-149: draw as checkWinner leaves it
checkWinnerDraw(b, p, d) ==
    IF ~checkWinner(b, p) /\ (\A i \in Boxes : b[i] # "") THEN TRUE ELSE d

Other(p) == IF p = "X" THEN "O" ELSE "X"

stamp_on_marked_box(t, boxNo) ==
    IF ~t.gameOver
      THEN LET b == [t.boardStatus EXCEPT ![boxNo] = t.current_player]
               d == checkWinnerDraw(b, t.current_player, t.draw)
               p == Other(t.current_player)
           IN  IF checkWinner(b, t.current_player)
                 THEN [t EXCEPT !.boardStatus = b, !.gameOver = TRUE]
               ELSE IF d
                 THEN [t EXCEPT !.boardStatus = b, !.draw = d, !.gameOver = TRUE]
               ELSE [t EXCEPT !.boardStatus = b,
                              !.draw = d,
                              !.current_player = p,
                              !.timers = IF t.game_mode = "computer" /\ p = "O"
                                           THEN t.timers + 1 ELSE t.timers]
      ELSE t

stamp(t, boxNo) ==
    IF t.boardStatus[boxNo] = "" /\ ~t.gameOver
      THEN LET b == [t.boardStatus EXCEPT ![boxNo] = t.current_player]
               d == checkWinnerDraw(b, t.current_player, t.draw)
               p == Other(t.current_player)
           IN  IF checkWinner(b, t.current_player)
                 THEN [t EXCEPT !.boardStatus = b, !.gameOver = TRUE]
               ELSE IF d
                 THEN [t EXCEPT !.boardStatus = b, !.draw = d, !.gameOver = TRUE]
               ELSE [t EXCEPT !.boardStatus = b,
                              !.draw = d,
                              !.current_player = p,
                              !.timers = IF t.game_mode = "computer" /\ p = "O"
                                           THEN t.timers + 1 ELSE t.timers]
      ELSE t

\* line 179
Empty(t) == { i \in Boxes : t.boardStatus[i] = "" }

\* playComputer, given what random.choice returns
playComputer(t, choice) ==
    IF t.gameOver THEN t
    ELSE IF Empty(t) # {} THEN stamp(t, choice)
    ELSE t

\* line 196
InBox(i, x, y) ==
    /\ boxCoords(i)[1] < x /\ x < boxCoords(i)[1] + cell
    /\ boxCoords(i)[2] - cell < y /\ y < boxCoords(i)[2]

\* lines 194-198: the boxes are tried in order
RECURSIVE ClickBoxes(_, _, _, _)
ClickBoxes(t, i, x, y) ==
    IF i >= Side * Side THEN t
    ELSE IF InBox(i, x, y)
              /\ (t.game_mode = "human"
                    \/ (t.game_mode = "computer" /\ t.current_player = "X"))
      THEN ClickBoxes(stamp(t, i), i + 1, x, y)
      ELSE ClickBoxes(t, i + 1, x, y)

clickHandler(t, x, y) ==
    IF -100 < x /\ x < 100 /\ 50 > y /\ y > 0 THEN startGame(t, "computer")
    ELSE IF -100 < x /\ x < 100 /\ -50 > y /\ y > -100 THEN startGame(t, "human")
    ELSE IF -100 < x /\ x < 100 /\ -350 > y /\ y > -390 THEN restart(t)
    ELSE IF t.game_mode # "None" THEN ClickBoxes(t, 0, x, y)
    ELSE t

\* The clicks explored: the centre of every box, a point above the centre
\* in every box of the column through x = 0, the Restart button, a point off
\* the board and a point on a grid line.
BoxPoints ==
    { <<boxCoords(i)[1] + cell \div 2, boxCoords(i)[2] - cell \div 2>> : i \in Boxes }
      \cup { <<boxCoords(i)[1] + cell \div 2, boxCoords(i)[2] - cell \div 4>> :
                i \in { j \in Boxes : boxCoords(j)[1] < 0 /\ 0 < boxCoords(j)[1] + cell } }

Clicks == BoxPoints \cup {<<0, -370>>, <<nx - 50, 0>>, <<nx + cell, ty - 50>>}

\* the box a point lies strictly inside, -1 if none (history)
BoxAt(x, y) ==
    IF \E i \in Boxes : InBox(i, x, y)
      THEN CHOOSE i \in Boxes : InBox(i, x, y)
      ELSE -1

\* the globals become `new`; Snake Xenia is left alone
CommitT(new, h) ==
    \E t \in {new} :
        /\ t.timers <= MaxTimers
        /\ game_mode' = t.game_mode
        /\ boardStatus' = t.boardStatus
        /\ current_player' = t.current_player
        /\ gameOver' = t.gameOver
        /\ draw' = t.draw
        /\ timers' = t.timers
        /\ lastT' = h
        /\ UNCHANGED vars

\* lines 201-203: the menu is shown, no game is started; Snake Xenia is in
\* one of its start states
InitT ==
    /\ InitOf({FALSE})
    /\ food.pos = <<-GRID_SIZE, -GRID_SIZE>>

\* sc.onclick(clickHandler): one click
Click ==
    /\ timers <= MaxTimers
    /\ \E c \in Clicks :
        CommitT(clickHandler(T, c[1], c[2]), [op |-> "click", box |-> BoxAt(c[1], c[2])])

\* a timer set by line 174 fires
Timer ==
    /\ timers > 0
    /\ LET t == [T EXCEPT !.timers = timers - 1]
       IN  \E choice \in (IF Empty(t) = {} THEN {-1} ELSE Empty(t)) :
               CommitT(playComputer(t, choice), [op |-> "timer", box |-> -1])

NextT ==
    \/ Click
    \/ Timer

SpecTTT == InitT /\ [][NextT]_tvars

---------------------------------------------------------------------------
(* Properties *)

\* head and body, head first
SnakeCells == <<head>> \o snake_segments

Parked(c) == c = <<OffScreen, OffScreen>>

NumParked == Cardinality({ i \in 1..Len(snake_segments) : Parked(snake_segments[i]) })

MovingKeys == {"go_up", "go_down", "go_left", "go_right"}

\* C1 as claimed: after every completed tick no two cells of the snake (head
\* and body segments, those a pickup appended included) are at the same
\* coordinate.
C1_AsClaimed ==
    last = "tick" =>
        \A i, j \in 1..Len(SnakeCells) : i # j => SnakeCells[i] # SnakeCells[j]

\* C1 (amended): after every completed tick, two cells of the snake are at
\* the same coordinate only when both are segments a pickup has just spawned,
\* still parked off-screen at (1000, 1000); the head and the segments on the
\* board are at pairwise different coordinates.
C1_BoardCellsDistinct ==
    last = "tick" =>
        \A i, j \in 1..Len(SnakeCells) :
            (i # j /\ SnakeCells[i] = SnakeCells[j])
                => (i > 1 /\ j > 1 /\ Parked(SnakeCells[i]) /\ Parked(SnakeCells[j]))

\* a tick that picked a power-up up behind a body that is on the board
C1_Witness ==
    /\ last = "tick"
    /\ ev.xenia
    /\ ev.fatal = "none"
    /\ Len(snake_segments) >= 3
    /\ ~Parked(snake_segments[1])
    /\ NumParked >= 2

\* one step, as C2 asks it to be
C2_Step ==
    direction \in Directions =>
        /\ last' = "go_up" => direction' = (IF direction = "down" THEN "down" ELSE "up")
        /\ last' = "go_down" => direction' = (IF direction = "up" THEN "up" ELSE "down")
        /\ last' = "go_left" => direction' = (IF direction = "right" THEN "right" ELSE "left")
        /\ last' = "go_right" => direction' = (IF direction = "left" THEN "left" ELSE "right")

\* C2: while direction is one of up/down/left/right, a request for the
\* opposite direction leaves direction unchanged, whatever the snake's length,
\* and a request for any other direction sets direction to the one requested.
C2_ReversalIgnored == [][C2_Step]_vars

\* go_down was requested and ignored by a snake of three cells moving up
C2_Witness ==
    /\ last = "go_down"
    /\ direction = "up"
    /\ Len(snake_segments) >= 2
    /\ NumParked = 0

\* C3: a tick in which a wall or self collision is detected skips the
\* consumable checks: after it score and the level-progress counter are 0 and
\* the snake has no body segment (nothing was eaten while dying).
C3_NoEatingWhileDying ==
    (last = "tick" /\ ev.fatal # "none") =>
        /\ score = 0
        /\ foods_eaten_in_level = 0
        /\ snake_segments = <<>>

\* one step, as C4 was claimed
C4_ClaimedStep ==
    (ev.fatal # "none" /\ last' # "restart_game") =>
        /\ head' = head
        /\ score' = score
        /\ foods_eaten_in_level' = foods_eaten_in_level
        /\ Len(snake_segments') = Len(snake_segments)

\* C4 as claimed: from a fatal collision until restart_game is processed, no
\* step moves the head or changes score, the level counter or the snake's
\* length.
C4_AsClaimed == [][C4_ClaimedStep]_vars

\* one step, as C4 (amended) asks it to be
C4_Step ==
    /\ (last' = "tick" /\ ev'.fatal # "none") => (head' = Origin /\ direction' = "stop")
    /\ (direction = "stop" /\ last' \in {"tick", "idle"}) =>
           /\ head' = head
           /\ score' = score
           /\ foods_eaten_in_level' = foods_eaten_in_level
           /\ snake_segments' = snake_segments
           /\ direction' = "stop"
    /\ (direction = "stop" /\ last' \in MovingKeys) => direction' \in Directions

\* C4 (amended): a fatal collision resets the game at once (head at the
\* origin, direction stop); while direction is stop no loop iteration moves
\* the head or changes score, the level counter or the snake's length; and a
\* direction key alone, without restart, sets direction again and so resumes
\* play.
C4_FrozenUntilDirection == [][C4_Step]_vars

\* after a fatal collision and with no restart, a direction key was taken
C4_Witness ==
    /\ ev.fatal # "none"
    /\ last \in MovingKeys
    /\ direction \in Directions

\* C5: high_score is the largest value score has held since the process
\* started; nothing (restart, game over) lowers it.
C5_HighScoreIsMax == high_score = maxScore

\* a game that scores below the best of an earlier one
C5_Witness ==
    /\ last = "tick"
    /\ score > 0
    /\ score < high_score

C7_ClaimedStep == delay' <= delay

\* C7 as claimed: across any two consecutive states (tick, key handler, game
\* over, restart) delay does not increase.
C7_AsClaimed == [][C7_ClaimedStep]_vars

\* one step, as C7 (amended) asks it to be
C7_Step ==
    IF last' = "restart_game" \/ (last' = "tick" /\ ev'.fatal # "none")
      THEN delay' = INITIAL_SPEED
      ELSE delay' <= delay

\* C7 (amended): delay does not increase across a tick without a fatal
\* collision nor across a key handler other than restart; restart_game and a
\* tick with a fatal collision set delay back to INITIAL_SPEED.
C7_DelayFallsUntilReset == [][C7_Step]_vars

\* a key handler that ran in a game already sped up
C7_Witness ==
    /\ last \in MovingKeys
    /\ delay < INITIAL_SPEED

\* one step, as C8 was claimed
C8_ClaimedStep == last' = "tick" => Len(snake_segments') >= Len(snake_segments)

\* C8 as claimed: across every tick the number of body segments does not
\* decrease.
C8_AsClaimed == [][C8_ClaimedStep]_vars

Growth(e) == (IF e.food THEN 1 ELSE 0) + (IF e.xenia THEN 2 ELSE 0)

\* one step, as C8 (amended) asks it to be
C8_Step ==
    /\ last' = "tick" =>
           Len(snake_segments') =
               (IF ev'.fatal # "none" THEN 0 ELSE Len(snake_segments)) + Growth(ev')
    /\ last' = "idle" => snake_segments' = snake_segments

\* C8 (amended): across a tick without a fatal collision the length grows by
\* exactly one per Food pickup and two per PowerUp pickup of that tick, so it
\* never shrinks; a tick with a wall or self collision clears the body, and
\* the length after it is that of the pickups of that same tick alone; an
\* idle iteration leaves the length as it is.
C8_LengthCountsGrowth == [][C8_Step]_vars

\* a power-up picked up by a snake that already has a body
C8_Witness ==
    /\ last = "tick"
    /\ ev.xenia
    /\ ~ev.food
    /\ ev.fatal = "none"
    /\ Len(snake_segments) >= 4

\* the level-progress counter after one more pickup
CounterAfter(n) == IF n + 1 >= LEVEL_UP_FOOD_COUNT THEN 0 ELSE n + 1

\* a tick without fatal collision whose move brought the head onto the Food
C9_FoodReached ==
    /\ last' = "tick"
    /\ ev'.fatal = "none"
    /\ (head'[1] - food.pos[1]) * (head'[1] - food.pos[1])
         + (head'[2] - food.pos[2]) * (head'[2] - food.pos[2]) < GRID_SIZE * GRID_SIZE

\* one step, as C9 was claimed
C9_ClaimedStep ==
    C9_FoodReached =>
        /\ score' = score + FOOD_SCORE
        /\ foods_eaten_in_level' = CounterAfter(foods_eaten_in_level)
        /\ Len(snake_segments') = Len(snake_segments) + 1
        /\ food'.visible

\* C9 as claimed: such a tick adds exactly FOOD_SCORE to score, one to the
\* level-progress counter (before a level-up reset), one segment to the
\* snake, and leaves the Food re-placed and visible.
C9_AsClaimed == [][C9_ClaimedStep]_vars

\* one step, as C9 (amended) asks it to be
C9_Step ==
    C9_FoodReached =>
        /\ score' = score + FOOD_SCORE + (IF ev'.xenia THEN XENIA_SCORE ELSE 0)
        /\ foods_eaten_in_level' =
               (IF ev'.xenia THEN CounterAfter(CounterAfter(foods_eaten_in_level))
                             ELSE CounterAfter(foods_eaten_in_level))
        /\ Len(snake_segments') = Len(snake_segments) + 1 + (IF ev'.xenia THEN 2 ELSE 0)
        /\ snake_segments'[Len(snake_segments) + 1] = <<OffScreen, OffScreen>>
        /\ food'.visible
        /\ food'.pos \in Candidates \cup {Origin}
        /\ ev'.xenia => (xenia'.pos = head' /\ head' = Origin)

\* C9 (amended): such a tick adds FOOD_SCORE to score, one to the
\* level-progress counter, one segment to the snake, and leaves the Food
\* re-placed (on a candidate cell or the fallback cell) and visible; these are
\* its only effects on them unless the PowerUp respawned by the same pickup
\* fell back onto the head's cell and was consumed in the same tick, which
\* adds XENIA_SCORE, one more counter step and two more segments.
C9_FoodPickup == [][C9_Step]_vars

\* Food alone was picked up by a snake that already had a body
C9_Witness ==
    /\ last = "tick"
    /\ ev.food
    /\ ~ev.xenia
    /\ ev.fatal = "none"
    /\ Len(snake_segments) >= 2
    /\ score = FOOD_SCORE * Len(snake_segments)

\* C10 as claimed: every placement of the Food (at the start, after a pickup,
\* on restart) puts it on a cell that is neither the head's nor a body
\* segment's at that moment.
C10_AsClaimed ==
    ev.placed => \A i \in 1..Len(SnakeCells) : SnakeCells[i] # food.pos

\* C10 (amended): a placement that finds a free candidate within
\* MAX_FOOD_TRIES tries puts the Food on a cell that is neither the head's nor
\* a body segment's; when every try was rejected the Food goes to (0, 0),
\* occupied or not.
C10_PlacementFreeOrFallback ==
    ev.placed =>
        IF ev.fallback
          THEN food.pos = Origin
          ELSE \A i \in 1..Len(SnakeCells) : SnakeCells[i] # food.pos

\* the Food was re-placed after a pickup while the board held body segments
C10_Witness ==
    /\ last = "tick"
    /\ ev.placed
    /\ ~ev.fallback
    /\ Len(snake_segments) - NumParked >= 2

\* where the head lands when the snake moves from the current state
Landing == move_head(head, direction)

\* the board rectangle minus the wall margin
InsideMargin(c) ==
    /\ Abs(c[1]) <= WIDTH \div 2 - WallPadding
    /\ Abs(c[2]) <= HEIGHT \div 2 - WallPadding

\* one step, as C11 was claimed
C11_ClaimedStep ==
    last' = "tick" =>
        /\ ev'.fatal = "wall" <=> ~InsideMargin(Landing)
        /\ ev'.fatal = "wall" => (snake_segments' = <<>> /\ direction' = "stop")

C11_Step ==
    last' = "tick" =>
        /\ ev'.fatal = "wall" <=> ~InsideMargin(Landing)
        /\ ev'.fatal = "wall" =>
               /\ direction' = "stop"
               /\ head' = Origin
               /\ Len(snake_segments') = Growth(ev')
               /\ \A i \in 1..Len(snake_segments') : Parked(snake_segments'[i])
        /\ (direction = "right" /\ head[2] = 0) =>
               (ev'.fatal = "wall" <=> head[1] + GRID_SIZE > WIDTH \div 2 - WallPadding)

C12_Step ==
    last' = "restart_game" =>
        /\ score' = 0
        /\ foods_eaten_in_level' = 0
        /\ delay' = INITIAL_SPEED
        /\ snake_segments' = <<>>
        /\ head' = Origin
        /\ direction' = "stop"
        /\ high_score' = high_score

\* C12: a restart request processed in any state leaves score 0, the
\* level-progress counter 0, delay INITIAL_SPEED, an empty body with the head
\* at the origin and direction stop, and leaves high_score as it was.
C12_RestartResets == [][C12_Step]_vars

\* a restart in the middle of a sped-up game whose score is the best so far
C12_Witness ==
    /\ last = "restart_game"
    /\ high_score >= FOOD_SCORE * LEVEL_UP_FOOD_COUNT
    /\ score = 0

\* the game data: everything the program keeps but the pause flag
GameData == <<head, snake_segments, direction, score, high_score,
              foods_eaten_in_level, delay, food, xenia>>

\* one step, as C13 asks it to be
C13_Step ==
    /\ (paused \/ direction = "stop") => last' # "tick"
    /\ last' = "idle" => (GameData' = GameData /\ paused' = paused)
    /\ last' = "toggle_pause" => (GameData' = GameData /\ paused' = ~paused)
    /\ (last = "toggle_pause" /\ last' = "toggle_pause" /\ ~paused') =>
           (paused /\ GameData' = GameData)

\* C13: a loop iteration made while the game is paused, or while direction is
\* stop, moves nothing and changes nothing (head, body, score, high_score,
\* level-progress counter, delay, Food and PowerUp positions and visibility);
\* toggling pause changes the pause flag alone, so pause on followed by pause
\* off gives back exactly the game data held before.
C13_PausedTickIsNoOp == [][C13_Step]_vars

\* a loop iteration in a paused game that is under way
C13_Witness ==
    /\ last = "idle"
    /\ paused
    /\ direction \in Directions
    /\ score > 0
    /\ snake_segments # <<>>

\* delay after one more pickup, the counter being n before it
DelayAfter(n, d) ==
    IF n + 1 >= LEVEL_UP_FOOD_COUNT THEN Max2(SPEED_MIN, d - SPEED_DECREMENT) ELSE d

\* the PowerUp is visible and within one grid unit of where the head arrives
XeniaReached ==
    /\ last' = "tick"
    /\ ev'.fatal = "none"
    /\ xenia.exists
    /\ xenia.visible
    /\ DistanceLess(head', xenia.pos, GRID_SIZE)

\* one step, as C14 asks it to be
C14_Step ==
    /\ XeniaReached =>
           /\ score' = score + XENIA_SCORE
           /\ Len(snake_segments') = Len(snake_segments) + 2
           /\ ~xenia'.visible
           /\ foods_eaten_in_level' = CounterAfter(foods_eaten_in_level)
           /\ delay' = DelayAfter(foods_eaten_in_level, delay)
    /\ (last' = "tick" /\ ~(xenia.exists /\ xenia.visible) /\ ~ev'.food) => ~ev'.xenia

\* C14: a tick that brings the head within one grid unit of a
\* visible PowerUp adds XENIA_SCORE to score and exactly two segments, hides
\* the PowerUp, adds one to the level-progress counter and applies the
\* level-up rule; a PowerUp that is not visible is not consumed.
C14_VisiblePowerUpConsumed == [][C14_Step]_vars

\* one step of the PowerUp handling as the code has it; ev'.xenia says that the test of
\* line 394 succeeded in the tick
PowerUpStep ==
    LET died == ev'.fatal # "none"
        s0 == IF died THEN 0 ELSE score
        n0 == IF died THEN 0 ELSE foods_eaten_in_level
        d0 == IF died THEN INITIAL_SPEED ELSE delay
        l0 == IF died THEN 0 ELSE Len(snake_segments)
        s1 == IF ev'.food THEN s0 + FOOD_SCORE ELSE s0
        n1 == IF ev'.food THEN CounterAfter(n0) ELSE n0
        d1 == IF ev'.food THEN DelayAfter(n0, d0) ELSE d0
        l1 == IF ev'.food THEN l0 + 1 ELSE l0
    IN  last' = "tick" =>
          /\ ev'.xenia =>
                 /\ score' = s1 + XENIA_SCORE
                 /\ Len(snake_segments') = l1 + 2
                 /\ snake_segments'[l1 + 1] = <<OffScreen, OffScreen>>
                 /\ snake_segments'[l1 + 2] = <<OffScreen, OffScreen>>
                 /\ xenia'.exists /\ ~xenia'.visible
                 /\ foods_eaten_in_level' = CounterAfter(n1)
                 /\ delay' = DelayAfter(n1, d1)
                 /\ DistanceLess(head', xenia'.pos, GRID_SIZE)
          /\ ~ev'.food =>
                 (ev'.xenia <=> (~died /\ xenia.exists /\ xenia.visible
                                   /\ DistanceLess(head', xenia.pos, GRID_SIZE)))
          /\ (ev'.food /\ ev'.xenia) => (xenia'.pos = Origin /\ head' = Origin)
          /\ (~ev'.xenia /\ ~ev'.food /\ ~died) =>
                 /\ score' = score
                 /\ Len(snake_segments') = Len(snake_segments)
                 /\ foods_eaten_in_level' = foods_eaten_in_level
                 /\ delay' = delay
                 /\ xenia' = xenia
          /\ XENIA_SCORE > FOOD_SCORE

\* What the code does about the PowerUp (not what C14 asks): when, after the
\* move and the collision and Food handling of a tick, the PowerUp is visible
\* and within one grid unit of the head, the tick adds XENIA_SCORE and two
\* segments, hides the PowerUp, adds one to the level-progress counter and
\* applies the level-up rule, on top of what a collision or a Food pickup of
\* the same tick has done.  A Food pickup re-rolls the PowerUp first, so a
\* PowerUp sharing the Food's cell is hidden or moved before it can be
\* consumed.
PowerUpPickup == [][PowerUpStep]_vars

\* a PowerUp, picked up alone, completed a level
PowerUpLevelUp ==
    /\ last = "tick"
    /\ ev.xenia
    /\ ~ev.food
    /\ ev.fatal = "none"
    /\ delay = INITIAL_SPEED - SPEED_DECREMENT
    /\ foods_eaten_in_level = 0
    /\ score = (LEVEL_UP_FOOD_COUNT - 1) * FOOD_SCORE + XENIA_SCORE

\* one step, as C15 asks it to be: n0 and d0 are the counter and the delay
\* the first pickup of the tick finds (those of the reset, had the tick a
\* fatal collision), n1 and d1 those a second pickup of the tick finds
C15_Step ==
    LET died == ev'.fatal # "none"
        n0 == IF died THEN 0 ELSE foods_eaten_in_level
        d0 == IF died THEN INITIAL_SPEED ELSE delay
        up0 == n0 + 1 >= LEVEL_UP_FOOD_COUNT
        n1 == IF up0 THEN 0 ELSE n0 + 1
        d1 == IF up0 THEN Max2(SPEED_MIN, d0 - SPEED_DECREMENT) ELSE d0
        up1 == n1 + 1 >= LEVEL_UP_FOOD_COUNT
    IN  /\ (last' = "tick" /\ ev'.food # ev'.xenia) =>
               IF up0
                 THEN /\ delay' = Max2(SPEED_MIN, d0 - SPEED_DECREMENT)
                      /\ foods_eaten_in_level' = 0
                 ELSE /\ delay' = d0
                      /\ foods_eaten_in_level' = n0 + 1
        /\ (last' = "tick" /\ ev'.food /\ ev'.xenia) =>
               IF up1
                 THEN /\ delay' = Max2(SPEED_MIN, d1 - SPEED_DECREMENT)
                      /\ foods_eaten_in_level' = 0
                 ELSE /\ delay' = d1
                      /\ foods_eaten_in_level' = n1 + 1

\* C15: whenever a pickup brings the level-progress counter to
\* LEVEL_UP_FOOD_COUNT, delay becomes max(SPEED_MIN, delay - SPEED_DECREMENT)
\* and the counter goes back to 0; a pickup that leaves the counter below the
\* threshold leaves delay unchanged.
C15_LevelUpRule == [][C15_Step]_vars

\* the fifth Food of a game made it faster
C15_Witness ==
    /\ last = "tick"
    /\ ev.food
    /\ ~ev.xenia
    /\ ev.fatal = "none"
    /\ score = LEVEL_UP_FOOD_COUNT * FOOD_SCORE
    /\ foods_eaten_in_level = 0
    /\ delay = INITIAL_SPEED - SPEED_DECREMENT

\* one step, as C16 asks it to be.  A first segment that is on the board lies
\* where the head was before the most recent moving tick of this game, so a
\* head landing on it has been moved opposite to that tick's direction.
C16_Step ==
    (last' = "tick" /\ snake_segments # <<>> /\ ~Parked(snake_segments[1])) =>
        Landing # snake_segments[1]

\* C16: whatever direction keys arrive between two consecutive moving ticks
\* of one game, the later tick does not move the head in the direction
\* opposite to that of the earlier tick (no 180-degree turn into the neck).
C16_NoReversalBetweenTicks == [][C16_Step]_vars

\* the snake as place_turtle_at_random finds it in the next tick, if that tick
\* eats the Food
AtPlacement == food_eaten(collision_step(move_snake(G)))

\* C17: a placement always ends with the consumable shown: whenever a tick is
\* about to eat the Food, and on restart, place_turtle_at_random has an
\* outcome, wherever the snake is; a placed Food is visible and on
\* a candidate cell or on (0, 0); the fallback, taken only when some candidate
\* is rejected (all MAX_FOOD_TRIES draws were), puts it on (0, 0), occupied or
\* not; a visible PowerUp is on a candidate cell or on (0, 0) as well.
C17_PlacementTerminates ==
    /\ place_turtle_at_random(Origin, <<>>) # {}
    /\ (tick_guard(paused, direction) /\ food_hit(collision_step(move_snake(G)))) =>
           place_turtle_at_random(AtPlacement.head, AtPlacement.snake_segments) # {}
    /\ ev.placed =>
           /\ food.visible
           /\ food.pos \in Candidates \cup {Origin}
    /\ (ev.placed /\ ev.fallback) =>
           /\ food.pos = Origin
           /\ \E c \in Candidates : CandidateCollides(head, snake_segments, c)
    /\ xenia.visible => (xenia.exists /\ xenia.pos \in Candidates \cup {Origin})

\* every candidate cell is under the snake, and the Food just eaten at the
\* origin was put back there, under the head
C17_Witness ==
    /\ last = "tick"
    /\ ev.placed
    /\ ev.fallback
    /\ food.visible
    /\ food.pos = head
    /\ \A c \in Candidates : CandidateCollides(head, snake_segments, c)

\* one grid unit along direction d
Offset(d) ==
    CASE d = "up" -> <<0, GRID_SIZE>>
      [] d = "down" -> <<0, -GRID_SIZE>>
      [] d = "left" -> <<-GRID_SIZE, 0>>
      [] d = "right" -> <<GRID_SIZE, 0>>

\* one step, as C18 asks it to be (a tick with a fatal collision resets the
\* snake after the move, so the move shows in the ticks without one)
C18_Step ==
    (last' = "tick" /\ ev'.fatal = "none") =>
        /\ \A i \in 1..Len(snake_segments) :
               snake_segments'[i] = (IF i = 1 THEN head ELSE snake_segments[i - 1])
        /\ head'[1] = head[1] + Offset(direction)[1]
        /\ head'[2] = head[2] + Offset(direction)[2]

\* C18: the move step shifts the body back to front: afterwards every segment
\* but the first is where its predecessor was, the first is where the head
\* was, and the head is one grid unit further along the current direction,
\* unchanged on the other axis.
C18_BodyFollows == [][C18_Step]_vars

\* a snake with four segments on the board, all different, has moved
C18_Witness ==
    /\ last = "tick"
    /\ ev.fatal = "none"
    /\ ~ev.food
    /\ Len(snake_segments) >= 4
    /\ NumParked = 0

\* one step, as C19 was claimed
C19_ClaimedStep ==
    (last' = "tick" /\ ev'.fatal = "none" /\ ev'.food /\ ~ev'.xenia
       /\ snake_segments # <<>>) =>
        /\ Len(snake_segments') = Len(snake_segments) + 1
        /\ snake_segments'[Len(snake_segments) + 1] = snake_segments[Len(snake_segments)]

\* C19 as claimed: a Food pickup appends, in the same tick, exactly one
\* segment at the end of the body, at the cell the tail held before that
\* tick's move.
C19_AsClaimed == [][C19_ClaimedStep]_vars

\* one step, as C19 (amended) asks it to be
C19_Step ==
    LET n == Len(snake_segments)
    IN  /\ (last' = "tick" /\ ev'.fatal = "none" /\ ev'.food /\ ~ev'.xenia) =>
               /\ Len(snake_segments') = n + 1
               /\ snake_segments'[n + 1] = <<OffScreen, OffScreen>>
        /\ (last' = "tick" /\ ev'.fatal = "none") =>
               \A i \in 1..n :
                   Parked(snake_segments[i]) =>
                       snake_segments'[i] = (IF i = 1 THEN head ELSE snake_segments[i - 1])
        /\ (last' # "tick" /\ last' # "restart_game") => snake_segments' = snake_segments

\* C19 (amended): a Food pickup appends, in the same tick, exactly one segment
\* at the end of the body, parked off-screen at (1000, 1000); it stays there
\* until the next moving tick, whose move step brings it to the cell its
\* predecessor held before that step (the tail's, the head's when the body
\* was empty, or (1000, 1000) again when the predecessor is itself parked).
C19_GrowthParksSegment == [][C19_Step]_vars

\* the segment a Food pickup had parked has joined the body on the board
C19_Witness ==
    /\ last = "tick"
    /\ ev.fatal = "none"
    /\ ~ev.food
    /\ ~ev.xenia
    /\ Len(snake_segments) >= 2
    /\ NumParked = 0
    /\ score = FOOD_SCORE * Len(snake_segments)

\* one step, as C20 asks it to be
C20_Step ==
    LET n == Len(snake_segments)
        followed == [i \in 1..n |-> IF i = 1 THEN head ELSE snake_segments[i - 1]]
    IN  last' = "tick" =>
          /\ ev'.fatal = "self" <=>
                 /\ InsideMargin(Landing)
                 /\ \E i \in 1..n : Landing = followed[i]
          /\ (n > 0 /\ Landing = snake_segments[n]) => ev'.fatal # "self"

\* C20: a tick is a self collision exactly when the head's new position is
\* (inside the walls and) on a cell that a body segment holds once the body
\* has followed; a move onto the cell the last segment held when the tick
\* began is legal.
C20_SelfCollision == [][C20_Step]_vars

\* the head has moved onto the cell the tail had just left, and the game
\* goes on
C20_Witness ==
    /\ last = "tick"
    /\ ev.ontail
    /\ ev.fatal = "none"
    /\ Len(snake_segments) >= 3
    /\ NumParked = 0

\* C21: with walls enabled the head is inside the wall margin at every tick
\* boundary, |head.x| <= WIDTH/2 - 10 and |head.y| <= HEIGHT/2 - 10, whatever
\* the direction keys, pauses and restarts.
C21_HeadInsideMargin ==
    WALLS_ENABLED =>
        /\ Abs(head[1]) <= WIDTH \div 2 - WallPadding
        /\ Abs(head[2]) <= HEIGHT \div 2 - WallPadding

\* the head left the margin during a tick and the tick put it back
C21_Witness ==
    /\ last = "tick"
    /\ ev.fatal = "wall"
    /\ head = Origin
    /\ direction = "stop"

\* C22: at every tick boundary 0 <= foods_eaten_in_level <
\* LEVEL_UP_FOOD_COUNT, whatever the pickups (both kinds in one tick
\* included), game overs and restarts.
C22_CounterBelowThreshold ==
    0 <= foods_eaten_in_level /\ foods_eaten_in_level < LEVEL_UP_FOOD_COUNT

\* Food and PowerUp were picked up in one tick and the second completed a
\* level
C22_Witness ==
    /\ last = "tick"
    /\ ev.food
    /\ ev.xenia
    /\ foods_eaten_in_level = 0
    /\ delay = INITIAL_SPEED - SPEED_DECREMENT

---------------------------------------------------------------------------
(* Properties of Tic Tac Toe *)

\* one step, as C23 asks it to be
C23_Step ==
    game_mode = "computer" =>
        \A i \in Boxes :
            /\ (lastT'.op = "timer" /\ boardStatus[i] = "" /\ boardStatus'[i] # "") =>
                   boardStatus'[i] = "O"
            /\ (lastT'.op = "click" /\ boardStatus[i] = "" /\ boardStatus'[i] # "") =>
                   boardStatus'[i] = "X"

\* C23: in game mode 'computer', whatever the order of human clicks, Restart
\* and menu clicks and firings of the playComputer timer, every mark that
\* playComputer places is an 'O' and every mark that a click places is an 'X'.
C23_ComputerPlaysO == [][C23_Step]_tvars

\* startGame has just run: the board is empty again and X is to play
Restarted ==
    /\ lastT'.op = "click"
    /\ \A i \in Boxes : boardStatus'[i] = ""
    /\ current_player' = "X"
    /\ ~gameOver'

\* one step, as C24 asks it to be
C24_Step ==
    \/ Restarted
    \/ /\ \A i \in Boxes : boardStatus[i] # "" => boardStatus'[i] = boardStatus[i]
       /\ \A i \in Boxes :
              boardStatus'[i] # boardStatus[i] =>
                  /\ ~gameOver
                  /\ boardStatus'[i] = current_player
                  /\ \A j \in Boxes : j # i => boardStatus'[j] = boardStatus[j]
       /\ gameOver =>
              /\ gameOver'
              /\ boardStatus' = boardStatus
              /\ current_player' = current_player
       /\ (gameOver' /\ ~gameOver) =>
              \/ \E line \in Lines : \A i \in line : boardStatus'[i] = current_player
              \/ \A i \in Boxes : boardStatus'[i] # ""

\* C24: short of a startGame, a step changes the board only by putting the
\* current player's mark into one empty box while the game is not over; a box
\* that holds a mark keeps it; the game becomes over on a win or a full
\* board, and once it is over no mark is placed and current_player does not
\* change.
C24_MarksAreFinal == [][C24_Step]_tvars

\* the game is won, boxes are left, and a click on one of them did nothing
C24_Witness ==
    /\ gameOver
    /\ ~draw
    /\ lastT.op = "click"
    /\ lastT.box # -1
    /\ boardStatus[lastT.box] = ""
    /\ \E line \in Lines : \A i \in line : boardStatus[i] = current_player

\* one step, as C25 asks it to be; lastT'.box is the box the click fell
\* strictly inside
C25_Step ==
    \A i \in Boxes :
        (/\ lastT'.op = "click"
         /\ lastT'.box = i
         /\ game_mode # "None"
         /\ boardStatus[i] = ""
         /\ ~gameOver
         /\ (game_mode = "human" \/ current_player = "X")) =>
            /\ boardStatus'[i] = current_player
            /\ \A j \in Boxes : j # i => boardStatus'[j] = boardStatus[j]
            /\ game_mode' = game_mode

\* C25: once a game is started, a click strictly inside an empty box, on the
\* clicking player's turn and with the game not over, puts the current
\* player's mark into that box and neither resets the board nor changes
\* game_mode.
C25_BoardClickPlacesMark == [][C25_Step]_tvars

=============================================================================
